---- MODULE Spec2Model ----
(***************************************************************************)
(* Model of streamlit_app.py: the indicator calculation                    *)
(* (calculate_technical_indicators), the data fetch (fetch_crypto_data)    *)
(* and the refresh loop of main.                                           *)
(*                                                                         *)
(* Arithmetic.  The program computes in IEEE doubles; the model computes   *)
(* the same expressions exactly.  A float is a fraction [num, den] with    *)
(* den = 0 standing for NaN.  The 1e-10 of the RSI divisor is kept as the  *)
(* symbol eps (values n / (d + e*eps)), and EMA_50, whose denominators     *)
(* grow as 51^t, is kept as a positional number in base 51.  Rounding of   *)
(* doubles is not modelled.                                                *)
(***************************************************************************)
EXTENDS Integers, Sequences, FiniteSets, TLC

\* ------------------------------------------------------------ constants
MIN_DATA_POINTS == 50
SMA_WINDOW == 20
EMA_SPAN == 50
RSI_WINDOW == 14
MIN_PERIODS == 1

\* ------------------------------------------------------------ floats
\* e, with x evaluated first (TLC evaluates operator arguments on demand;
\* the loops below evaluate each step before the next).
Eager(x, e) == IF x = x THEN e ELSE e

\* A float: the fraction num/den, den > 0; den = 0 is NaN.
NaN == [num |-> 0, den |-> 0]

IsNaN(x) == x.den = 0

Flt(n) == [num |-> n, den |-> 1]

\* x == y on doubles: FALSE when either side is NaN.
FltEq(x, y) == ~IsNaN(x) /\ ~IsNaN(y) /\ x.num * y.den = y.num * x.den

\* x < y on doubles: FALSE when either side is NaN.
FltLt(x, y) == ~IsNaN(x) /\ ~IsNaN(y) /\ x.num * y.den < y.num * x.den

FltSub(x, y) ==
    IF IsNaN(x) \/ IsNaN(y) THEN NaN
    ELSE [num |-> x.num * y.den - y.num * x.den, den |-> x.den * y.den]

FltAdd(x, y) ==
    IF IsNaN(x) \/ IsNaN(y) THEN NaN
    ELSE [num |-> x.num * y.den + y.num * x.den, den |-> x.den * y.den]

FltNeg(x) == IF IsNaN(x) THEN NaN ELSE [num |-> 0 - x.num, den |-> x.den]

\* ------------------------------------------------------------ Series ops
\* Series.diff(periods=-1): the difference to the NEXT row.
DiffForward(s) ==
    [i \in 1..Len(s) |-> IF i = Len(s) THEN NaN ELSE FltSub(s[i], s[i + 1])]

\* Series.diff(): row 1 is NaN, row i is s[i] - s[i-1].
Diff(s) ==
    [i \in 1..Len(s) |-> IF i = 1 THEN NaN ELSE FltSub(s[i], s[i - 1])]

\* delta.where(delta > 0, 0): keep the value where the condition holds,
\* else 0; NaN > 0 is False, so a NaN delta becomes 0.
WherePositive(s) ==
    [i \in 1..Len(s) |-> IF FltLt(Flt(0), s[i]) THEN s[i] ELSE Flt(0)]

\* delta.where(delta < 0, 0)
WhereNegative(s) ==
    [i \in 1..Len(s) |-> IF FltLt(s[i], Flt(0)) THEN s[i] ELSE Flt(0)]

Negate(s) == [i \in 1..Len(s) |-> FltNeg(s[i])]

\* Series.rolling(window, min_periods).mean(), as pandas computes it: one
\* pass that removes the value leaving the window and adds the entering
\* one, NaN values skipped on both sides; the mean is sum/nobs when
\* nobs >= min_periods (and nobs > 0), else NaN.
\* st is the pass's state before row i: the window's sum, its count of
\* observations, and the means of the rows before.
RollStep(s, window, minp, st, i) ==
    LET remOld == i > window /\ ~IsNaN(s[i - window])
        sum1   == IF remOld THEN FltSub(st.sum, s[i - window]) ELSE st.sum
        nobs1  == IF remOld THEN st.nobs - 1 ELSE st.nobs
        addNew == ~IsNaN(s[i])
        sum2   == IF addNew THEN FltAdd(sum1, s[i]) ELSE sum1
        nobs2  == IF addNew THEN nobs1 + 1 ELSE nobs1
        out    == IF nobs2 >= minp /\ nobs2 > 0
                  THEN [num |-> sum2.num, den |-> sum2.den * nobs2]
                  ELSE NaN
    IN  [sum |-> sum2, nobs |-> nobs2, acc |-> Append(st.acc, out)]

\* Rows lo..hi in order (the range is halved to keep the evaluation shallow).
RECURSIVE RollRun(_, _, _, _, _, _)
RollRun(s, window, minp, st, lo, hi) ==
    IF lo > hi THEN st
    ELSE IF lo = hi THEN RollStep(s, window, minp, st, lo)
    ELSE LET mid  == (lo + hi) \div 2
             left == RollRun(s, window, minp, st, lo, mid)
         IN  Eager(left, RollRun(s, window, minp, left, mid + 1, hi))

RollingMean(s, window, minp) ==
    RollRun(s, window, minp, [sum |-> Flt(0), nobs |-> 0, acc |-> <<>>],
            1, Len(s)).acc

\* ------------------------------------------------------------ base-51 numbers
\* A non-negative number with finitely many digits in base EMA_SPAN + 1:
\* d holds the digits, least significant first, s of them after the point:
\* value = SUM d[j] * Base^(j - 1 - s).  Kept normalised (no zero digit at
\* either end), so that equal values are equal records.
Base == EMA_SPAN + 1

BigZero == [d |-> <<>>, s |-> 0]

StripHigh(d) ==
    LET nz == {j \in 1..Len(d) : d[j] # 0}
    IN  IF nz = {} THEN <<>>
        ELSE SubSeq(d, 1, CHOOSE j \in nz : \A i \in nz : i <= j)

StripLow(x) ==
    IF x.d = <<>> THEN BigZero
    ELSE LET nz    == {j \in 1..Len(x.d) : x.d[j] # 0}
             first == CHOOSE j \in nz : \A i \in nz : j <= i
             k     == IF first - 1 < x.s THEN first - 1 ELSE x.s
         IN  [d |-> SubSeq(x.d, k + 1, Len(x.d)), s |-> x.s - k]

BigNorm(x) == StripLow([d |-> StripHigh(x.d), s |-> x.s])

RECURSIVE Digits(_)
Digits(n) == IF n = 0 THEN <<>> ELSE <<n % Base>> \o Digits(n \div Base)

BigFromInt(n) == [d |-> Digits(n), s |-> 0]

\* Digits lo..hi of d times m, from the carry and the digits in st.
RECURSIVE MulCarry(_, _, _, _, _)
MulCarry(d, m, st, lo, hi) ==
    IF lo > hi THEN st
    ELSE IF lo = hi
    THEN LET t == d[lo] * m + st.carry
         IN  [carry |-> t \div Base, acc |-> Append(st.acc, t % Base)]
    ELSE LET mid  == (lo + hi) \div 2
             left == MulCarry(d, m, st, lo, mid)
         IN  Eager(left, MulCarry(d, m, left, mid + 1, hi))

BigMulSmall(x, m) ==
    LET r == MulCarry(x.d, m, [carry |-> 0, acc |-> <<>>], 1, Len(x.d))
    IN  BigNorm([d |-> r.acc \o Digits(r.carry), s |-> x.s])

Zeros(k) == [j \in 1..k |-> 0]

\* x written with k more digits after the point
BigShift(x, k) == [d |-> Zeros(k) \o x.d, s |-> x.s + k]

\* Digits lo..hi of a + b, from the carry and the digits in st.
RECURSIVE AddCarry(_, _, _, _, _)
AddCarry(a, b, st, lo, hi) ==
    IF lo > hi THEN st
    ELSE IF lo = hi
    THEN LET t == (IF lo <= Len(a) THEN a[lo] ELSE 0)
                  + (IF lo <= Len(b) THEN b[lo] ELSE 0) + st.carry
         IN  [carry |-> t \div Base, acc |-> Append(st.acc, t % Base)]
    ELSE LET mid  == (lo + hi) \div 2
             left == AddCarry(a, b, st, lo, mid)
         IN  Eager(left, AddCarry(a, b, left, mid + 1, hi))

BigAdd(x, y) ==
    LET sc == IF x.s > y.s THEN x.s ELSE y.s
        a  == BigShift(x, sc - x.s)
        b  == BigShift(y, sc - y.s)
        n  == IF Len(a.d) > Len(b.d) THEN Len(a.d) ELSE Len(b.d)
        r  == AddCarry(a.d, b.d, [carry |-> 0, acc |-> <<>>], 1, n)
    IN  BigNorm([d |-> r.acc \o Digits(r.carry), s |-> sc])

\* x / Base
BigDivBase(x) == BigNorm([d |-> x.d, s |-> x.s + 1])

RECURSIVE Pow(_, _)
Pow(a, k) == IF k = 0 THEN 1 ELSE a * Pow(a, k - 1)

\* ------------------------------------------------------------ EMA values
\* An exponentially weighted mean: the value big/q, q > 0; q = 0 is NaN.
\* q is 1 until a NaN price widens a step of the recurrence (see EwmUpdate).
EmaNaN == [big |-> BigZero, q |-> 0]

EmaIsNaN(w) == w.q = 0

EmaOfInt(c) == [big |-> BigFromInt(c), q |-> 1]

\* w == c for an EMA value w and a whole number c
EmaEqInt(w, c) == ~EmaIsNaN(w) /\ w.big = BigMulSmall(BigFromInt(w.q), c)

\* w1 == w2 on EMA values
EmaEq(w1, w2) ==
    /\ ~EmaIsNaN(w1)
    /\ ~EmaIsNaN(w2)
    /\ BigMulSmall(w1.big, w2.q) = BigMulSmall(w2.big, w1.q)

\* The weights exchanged: alpha on the old mean, 1 - alpha on the price.
EwmUpdateSwapped(w, cur, span, k) ==
    LET top == BigAdd(BigMulSmall(w.big, 2),
                      BigMulSmall(BigFromInt(w.q), cur * (span - 1)))
    IN  [big |-> BigDivBase(top), q |-> w.q]

\* One observation cur (a whole number) entering the mean w, with
\* alpha = 2/(span + 1), new_wt = alpha and old_wt = (1 - alpha)^k:
\*     weighted = (old_wt * weighted + new_wt * cur) / (old_wt + new_wt)
\* Both weights scaled by (span + 1)^k:
\*     ((span-1)^k * w + 2*(span+1)^(k-1) * cur)
\*         / ((span-1)^k + 2*(span+1)^(k-1))
\* For k = 1 the divisor is span + 1, the base.
EwmUpdate(w, cur, span, k) ==
    LET oldW == Pow(span - 1, k)
        newW == 2 * Pow(span + 1, k - 1)
        top  == BigAdd(BigMulSmall(w.big, oldW),
                       BigMulSmall(BigMulSmall(BigFromInt(w.q), cur), newW))
    IN  IF oldW + newW = Base
        THEN [big |-> BigDivBase(top), q |-> w.q]
        ELSE [big |-> top, q |-> w.q * (oldW + newW)]

\* Series.ewm(span, adjust=False).mean(), as pandas computes it
\* (ignore_na=False, min_periods=0): the first observation seeds the mean;
\* old_wt is multiplied by (1 - alpha) at every row, NaN or not, and is set
\* back to 1 after an observation; a NaN row repeats the previous mean; an
\* observation equal to the mean leaves it as it is.
\* k counts the factors (1 - alpha) in old_wt.
\* st is the state before row i: the mean, k, and the means of the rows
\* before.
EwmStep(s, span, st, i) ==
    LET cur   == s[i]
        isObs == ~IsNaN(cur)
        had   == ~EmaIsNaN(st.weighted)
        k1    == IF had THEN st.k + 1 ELSE st.k
        w1    == IF had
                 THEN IF isObs /\ ~EmaEqInt(st.weighted, cur.num)
                      THEN EwmUpdate(st.weighted, cur.num, span, k1)
                      ELSE st.weighted
                 ELSE IF isObs THEN EmaOfInt(cur.num) ELSE st.weighted
        k2    == IF had /\ isObs THEN 0 ELSE k1
    IN  [weighted |-> w1, k |-> k2, acc |-> Append(st.acc, w1)]

\* Rows lo..hi in order (the range is halved to keep the evaluation shallow).
RECURSIVE EwmRun(_, _, _, _, _)
EwmRun(s, span, st, lo, hi) ==
    IF lo > hi THEN st
    ELSE IF lo = hi THEN EwmStep(s, span, st, lo)
    ELSE LET mid  == (lo + hi) \div 2
             left == EwmRun(s, span, st, lo, mid)
         IN  Eager(left, EwmRun(s, span, left, mid + 1, hi))

EwmMean(s, span) ==
    IF Len(s) = 0 THEN <<>>
    ELSE LET w0 == IF IsNaN(s[1]) THEN EmaNaN ELSE EmaOfInt(s[1].num)
         IN  EwmRun(s, span, [weighted |-> w0, k |-> 0, acc |-> <<w0>>],
                    2, Len(s)).acc

\* ------------------------------------------------------------ RSI values
\* A value n / (d + e*eps), eps = 1e-10; d = e = 0 is NaN.

RsiNaN == [n |-> 0, d |-> 0, e |-> 0]

RsiIsNaN(r) == r.d = 0 /\ r.e = 0

\* avg_gain / (avg_loss + 1e-10):
\*   (g.num/g.den) / (l.num/l.den + eps)
\*       = g.num*l.den / (g.den*l.num + g.den*l.den*eps)
RelativeStrength(g, l) ==
    IF IsNaN(g) \/ IsNaN(l) THEN RsiNaN
    ELSE [n |-> g.num * l.den, d |-> g.den * l.num, e |-> g.den * l.den]

\* 100 - (100 / (1 + rs)), with rs = n/(d + e*eps):
\*   1 + rs = (n + d + e*eps)/(d + e*eps)
\*   100 - 100*(d + e*eps)/(n + d + e*eps) = 100*n / (n + d + e*eps)
RsiOf(rs) ==
    IF RsiIsNaN(rs) THEN RsiNaN
    ELSE [n |-> 100 * rs.n, d |-> rs.n + rs.d, e |-> rs.e]

\* r == c, c a whole number: n = c*d + c*e*eps.  The model's numbers are
\* below 2^31 < 10^10, so 0 <= c*e*eps < 1 while n - c*d is whole:
\* equal exactly when n = c*d and c*e = 0.
RsiEqInt(r, c) == ~RsiIsNaN(r) /\ r.n = c * r.d /\ c * r.e = 0

\* r < c: n < c*d + c*e*eps, that is n - c*d < c*e*eps with the right side
\* in [0, 1): n - c*d < 0, or n - c*d = 0 and c*e > 0.
RsiLtInt(r, c) ==
    ~RsiIsNaN(r) /\ (r.n < c * r.d \/ (r.n = c * r.d /\ c * r.e > 0))

\* r > c: n - c*d > c*e*eps, that is n - c*d >= 1.
RsiGtInt(r, c) == ~RsiIsNaN(r) /\ r.n > c * r.d

\* ------------------------------------------------------------ the table
\* A history row is <<timestamp, price>>: a whole-number timestamp and a
\* float price.  A result is None or a DataFrame (its rows, in order).
None == [none |-> TRUE, rows |-> <<>>]

DataFrame(rows) == [none |-> FALSE, rows |-> rows]

Column(prices, j) == [i \in 1..Len(prices) |-> prices[i][j]]

\* pd.DataFrame(prices, columns=['timestamp', 'price']) raises when the
\* rows are wider than the two columns named.
FrameRaises(prices) == \E i \in 1..Len(prices) : Len(prices[i]) > 2

\* min_periods left at its default, the window: no value in the warm-up.
SMA_20_Strict(price) == RollingMean(price, SMA_WINDOW, SMA_WINDOW)

\* The window's sum divided by the period, whatever the count.
SMA_20_ByPeriod(price) ==
    LET m == RollingMean(price, SMA_WINDOW, MIN_PERIODS)
    IN  [i \in 1..Len(price) |->
            IF IsNaN(m[i]) THEN NaN ELSE [num |-> m[i].num, den |-> SMA_WINDOW]]

\* df['price'].rolling(window=20, min_periods=1).mean()
SMA_20(price) == RollingMean(price, SMA_WINDOW, MIN_PERIODS)

\* df['price'].ewm(span=50, adjust=False).mean()
EMA_50(price) == EwmMean(price, EMA_SPAN)

\* The gains averaged over the SMA's window.
AvgGainWide(gain) == RollingMean(gain, SMA_WINDOW, MIN_PERIODS)

\* gain.rolling(14, min_periods=1).mean()
AvgGain(gain) == RollingMean(gain, RSI_WINDOW, MIN_PERIODS)

\* min_periods left at its default, the window.
AvgLossStrict(loss) == RollingMean(loss, RSI_WINDOW, RSI_WINDOW)

\* loss.rolling(14, min_periods=1).mean()
AvgLoss(loss) == RollingMean(loss, RSI_WINDOW, MIN_PERIODS)

\* rs = avg_gain / (avg_loss + 1e-10); 100 - (100 / (1 + rs))
RSI_14(price) ==
    LET delta    == Diff(price)
        gain     == WherePositive(delta)
        loss     == Negate(WhereNegative(delta))
        avg_gain == AvgGain(gain)
        avg_loss == AvgLoss(loss)
    IN  [i \in 1..Len(price) |->
            RsiOf(RelativeStrength(avg_gain[i], avg_loss[i]))]

\* The table returned as it is.
KeepAll(rows) == rows

RowHasNaN(r) ==
    IsNaN(r.price) \/ IsNaN(r.SMA_20) \/ EmaIsNaN(r.EMA_50) \/ RsiIsNaN(r.RSI_14)

\* df.dropna(): the rows without a NaN cell, in order.  (Timestamps are
\* whole numbers in the model, never NaN.)
DropNa(rows) == SelectSeq(rows, LAMBDA r : ~RowHasNaN(r))

\* The table before dropna: one row per input row.
Indicators(prices) ==
    LET price == Column(prices, 2)
        sma   == SMA_20(price)
        ema   == EMA_50(price)
        rsi   == RSI_14(price)
    IN  [i \in 1..Len(prices) |->
            [timestamp |-> prices[i][1], price |-> price[i],
             SMA_20 |-> sma[i], EMA_50 |-> ema[i], RSI_14 |-> rsi[i]]]

\* calculate_technical_indicators(prices): None for a short or empty
\* history, None when anything inside the try raises, else the table.
calculate_technical_indicators(prices) ==
    IF Len(prices) = 0 \/ Len(prices) < MIN_DATA_POINTS THEN None
    ELSE IF FrameRaises(prices) THEN None
    ELSE DataFrame(DropNa(Indicators(prices)))

\* ------------------------------------------------------------ bounds
\* Samples the data source adds to its history while the model runs.
MaxAppend == 2
\* Malformed samples (NaN price) in one history.
MaxBad == 1
\* The price level the generated histories move around.
BasePrice == 5

\* ------------------------------------------------------------ state
VARIABLES
    series,     \* the data source: the price history it holds now
    appended,   \* how many samples it has added since the start
    pc,         \* main: the line the refresh loop is at
    data,       \* main: the result of fetch_crypto_data()
    df,         \* main: the result of calculate_technical_indicators()
    shown       \* the page: what the last write to the placeholders shows

vars == <<series, appended, pc, data, df, shown>>

\* ------------------------------------------------------------ histories
Shapes == {"flat", "rising", "falling", "wave"}

\* The price of sample i (1-based) of a history of n samples.
ShapePrice(shape, n, i) ==
    CASE shape = "flat"    -> BasePrice
      [] shape = "rising"  -> BasePrice + i
      [] shape = "falling" -> BasePrice + n - i
      [] shape = "wave"    -> BasePrice + (i % 4)

\* A history of n samples of a shape, sample bad (if any) malformed.
History(shape, n, bad) ==
    [i \in 1..n |->
        <<i, IF i = bad THEN NaN ELSE Flt(ShapePrice(shape, n, i))>>]

InitLens == {1, SMA_WINDOW \div 2, MIN_DATA_POINTS - 1}

BadCount(h) == Cardinality({i \in 1..Len(h) : IsNaN(h[i][2])})

\* The last well-formed price of a history (BasePrice when there is none).
RECURSIVE LastPrice(_)
LastPrice(h) ==
    IF Len(h) = 0 THEN BasePrice
    ELSE IF ~IsNaN(h[Len(h)][2]) THEN h[Len(h)][2].num
    ELSE LastPrice(SubSeq(h, 1, Len(h) - 1))

\* ------------------------------------------------------------ fetch
NoData == [none |-> TRUE, current_price |-> 0, history |-> <<>>]

FetchOutcomes ==
    {"ok", "price_non200", "symbol_missing", "history_non200",
     "network_error", "unexpected_error", "wide_rows"}

\* fetch_crypto_data(): None when the price request is not a 200 or
\* lacks the symbol, when the history request is not a 200, and when a
\* request or the decoding of its answer raises; else the current price and
\* the history.  "wide_rows" is an answer whose rows carry a third column.
fetch_crypto_data(outcome, source) ==
    CASE outcome = "ok" ->
            [none |-> FALSE, current_price |-> LastPrice(source),
             history |-> source]
      [] outcome = "wide_rows" ->
            [none |-> FALSE, current_price |-> LastPrice(source),
             history |-> [i \in 1..Len(source) |-> source[i] \o <<Flt(0)>>]]
      [] OTHER -> NoData

\* ------------------------------------------------------------ the page
\* What the status placeholder shows: nothing, the metrics of a table (the
\* RSI and EMA of its last row), or one of the messages.
Blank == [kind |-> "blank", rsi_value |-> RsiNaN, rsi_status |-> "",
          ema_value |-> EmaNaN]

Message(kind) == [Blank EXCEPT !.kind = kind]

\* "Oversold" if rsi_value < 30 else "Overbought" if rsi_value > 70
\* else "Neutral"
RsiStatus(rsi_value) ==
    IF RsiLtInt(rsi_value, 30) THEN "Oversold"
    ELSE IF RsiGtInt(rsi_value, 70) THEN "Overbought"
    ELSE "Neutral"

\* rsi_value = df['RSI_14'].iloc[-1]; ema_value = df['EMA_50'].iloc[-1]
Metrics(frame) ==
    LET last == frame.rows[Len(frame.rows)]
    IN  [kind |-> "metrics", rsi_value |-> last.RSI_14,
         rsi_status |-> RsiStatus(last.RSI_14), ema_value |-> last.EMA_50]

\* ------------------------------------------------------------ main
Init ==
    /\ \E shape \in Shapes, n \in InitLens, bad \in 0..MaxBad :
          series = History(shape, n, IF bad = 0 THEN 0 ELSE (n + 1) \div 2)
    /\ appended = 0
    /\ pc = "fetch"
    /\ data = NoData
    /\ df = None
    /\ shown = Blank

\* The data source adds one sample: the last price moved by at most one
\* unit, or a malformed sample.
NewSample ==
    /\ pc = "sleep"
    /\ appended < MaxAppend
    /\ \E step \in {-1, 0, 1, 2} :
          /\ step = 2 => BadCount(series) < MaxBad
          /\ LastPrice(series) + step >= 0
          /\ series' = Append(series,
                <<Len(series) + 1,
                  IF step = 2 THEN NaN ELSE Flt(LastPrice(series) + step)>>)
    /\ appended' = appended + 1
    /\ UNCHANGED <<pc, data, df, shown>>

\* No except clause: the exception leaves main.
RaiseUncaught ==
    /\ shown' = shown
    /\ pc' = "crashed"

\* An exception raised inside the try of the loop: the except clause logs
\* it, writes the recovery message, and the loop goes on to the sleep.
Raise ==
    /\ shown' = Message("recover")
    /\ pc' = "sleep"

\* with status_placeholder.container(): the placeholder is emptied;
\* data = fetch_crypto_data()
Fetch ==
    /\ pc = "fetch"
    /\ \E outcome \in FetchOutcomes :
          data' = fetch_crypto_data(outcome, series)
    /\ shown' = Blank
    /\ pc' = "analyse"
    /\ UNCHANGED <<series, appended, df>>

\* if data and len(data['history']) >= MIN_DATA_POINTS:
\*     df = calculate_technical_indicators(data['history'])
\* else: st.error("Failed to fetch market data")
Analyse ==
    /\ pc = "analyse"
    /\ IF ~data.none /\ Len(data.history) >= MIN_DATA_POINTS
       THEN /\ df' = calculate_technical_indicators(data.history)
            /\ pc' = "render"
            /\ UNCHANGED shown
       ELSE /\ shown' = Message("error")
            /\ pc' = "sleep"
            /\ UNCHANGED df
    /\ UNCHANGED <<series, appended, data>>

\* if df is not None and not df.empty: the metrics and the chart, any call
\* of which may raise;  else: st.warning("Insufficient data for analysis")
Render ==
    /\ pc = "render"
    /\ IF ~df.none /\ Len(df.rows) > 0
       THEN \E raised \in BOOLEAN :
               IF raised THEN Raise
               ELSE shown' = Metrics(df) /\ pc' = "sleep"
       ELSE shown' = Message("warning") /\ pc' = "sleep"
    /\ UNCHANGED <<series, appended, data, df>>

\* time.sleep(REFRESH_INTERVAL), then the next turn of while True.
\* data and df are dead here (the next turn assigns data before it reads
\* it, and reads df only after assigning it): the model forgets them.
Sleep ==
    /\ pc = "sleep"
    /\ pc' = "fetch"
    /\ data' = NoData
    /\ df' = None
    /\ UNCHANGED <<series, appended, shown>>

MainStep == Fetch \/ Analyse \/ Render \/ Sleep

Next == MainStep \/ NewSample

Spec == Init /\ [][Next]_vars

\* Where a step of main takes the loop: MainStep seen on pc alone.
MainMoves ==
    \/ pc = "fetch" /\ pc' = "analyse"
    \/ pc = "analyse" /\ pc' \in {"render", "sleep"}
    \/ pc = "render" /\ pc' = "sleep"
    \/ pc = "sleep" /\ pc' = "fetch"

\* The loop runs on: a step of main waits for nothing but its own calls
\* (the requests time out, the sleep ends), so a step that stays possible
\* is taken.  An exception that has left main leaves no step to take.
FairSpec == Spec /\ WF_pc(MainMoves)

\* ------------------------------------------------------------ claims
\* calculate_technical_indicators has just returned a table for
\* data.history.
Calculated == pc = "render" /\ ~df.none

\* Every sample of the history carries a price.
WellFormed(h) == BadCount(h) = 0

Prices(h) == Column(h, 2)

\* s[lo] + ... + s[hi] for whole-number floats
RECURSIVE SumRange(_, _, _)
SumRange(s, lo, hi) ==
    IF lo > hi THEN 0 ELSE s[hi].num + SumRange(s, lo, hi - 1)

Min2(a, b) == IF a < b THEN a ELSE b

Max2(a, b) == IF a > b THEN a ELSE b

\* r1 == r2 on RSI values: n1*(d2 + e2*eps) = n2*(d1 + e1*eps); both sides
\* of n1*d2 - n2*d1 = (n2*e1 - n1*e2)*eps are whole numbers below 10^10
\* times 1 and eps, so both are 0.
RsiEq(r1, r2) ==
    /\ ~RsiIsNaN(r1)
    /\ ~RsiIsNaN(r2)
    /\ r1.n * r2.d = r2.n * r1.d
    /\ r1.n * r2.e = r2.n * r1.e

RowsUpTo(rows, k) == SelectSeq(rows, LAMBDA r : r.timestamp <= k)

StrictlyIncreasing(h) ==
    \A i \in 2..Len(h) : FltLt(h[i - 1][2], h[i][2])

Constant(h) == \A i \in 1..Len(h) : FltEq(h[i][2], h[1][2])

\* C1: batch/incremental equivalence.  Evaluating the history sample by
\* sample (the table of each prefix the loop would have fetched) gives,
\* for every prefix, exactly the rows the batch table of the whole history
\* holds for those samples: the row of sample i depends on samples 0..i
\* only, and the last row of each incremental run is the batch row.
C1_BatchIncremental ==
    Calculated =>
        \A k \in MIN_DATA_POINTS..Len(data.history) :
            calculate_technical_indicators(SubSeq(data.history, 1, k)).rows
                = RowsUpTo(df.rows, k)

C1_Witness ==
    /\ Calculated
    /\ Len(data.history) > MIN_DATA_POINTS
    /\ Len(df.rows) = Len(data.history)
    /\ ~Constant(data.history)

\* C2: RSI zero-guard, as claimed.  On a strictly increasing history every
\* row past the RSI warm-up has RSI_14 = 100 exactly, and on a constant
\* history RSI_14 = 50 exactly.
C2_RsiZeroGuard ==
    (Calculated /\ WellFormed(data.history)) =>
        \A j \in 1..Len(df.rows) :
            df.rows[j].timestamp > RSI_WINDOW =>
                /\ StrictlyIncreasing(data.history)
                       => RsiEqInt(df.rows[j].RSI_14, 100)
                /\ Constant(data.history)
                       => RsiEqInt(df.rows[j].RSI_14, 50)

\* What the code does on a constant history: RSI_14 is 0 on every row.
C2_ConstantIsZero ==
    (Calculated /\ WellFormed(data.history) /\ Constant(data.history)) =>
        \A j \in 1..Len(df.rows) : RsiEqInt(df.rows[j].RSI_14, 0)

C4_StrictWarmUp ==
    Calculated =>
        \A j \in 1..Len(df.rows) :
            /\ df.rows[j].timestamp < SMA_WINDOW => IsNaN(df.rows[j].SMA_20)
            /\ df.rows[j].timestamp < RSI_WINDOW => RsiIsNaN(df.rows[j].RSI_14)
            /\ df.rows[j].timestamp < EMA_SPAN => EmaIsNaN(df.rows[j].EMA_50)

\* C4, amended: the minimum period is 1.  For a history of well-formed
\* samples every row, from the first, carries a value of SMA_20, RSI_14
\* and EMA_50; so no ready row is followed by a not-ready one.
C4_ReadyFromFirstRow ==
    (Calculated /\ WellFormed(data.history)) =>
        /\ Len(df.rows) = Len(data.history)
        /\ \A j \in 1..Len(df.rows) :
              /\ df.rows[j].timestamp = j
              /\ ~IsNaN(df.rows[j].SMA_20)
              /\ ~RsiIsNaN(df.rows[j].RSI_14)
              /\ ~EmaIsNaN(df.rows[j].EMA_50)

\* A table whose history ends in two equal prices.
C4_Witness ==
    /\ Calculated
    /\ WellFormed(data.history)
    /\ Len(data.history) > MIN_DATA_POINTS
    /\ FltEq(data.history[Len(data.history)][2],
             data.history[Len(data.history) - 1][2])
    /\ ~IsNaN(df.rows[1].SMA_20)
    /\ df.rows[1].timestamp = 1

\* The EMA law on a table t of the history h: the first row's EMA_50 is
\* the first price, and every later row t satisfies
\* EMA_t = a*price_t + (1 - a)*EMA_{t-1}, a = 2/(EMA_SPAN + 1); that is
\* (EMA_SPAN + 1)*EMA_t = 2*price_t + (EMA_SPAN - 1)*EMA_{t-1}.
EmaLaw(h, t) ==
    /\ Len(t.rows) = Len(h)
    /\ EmaEqInt(t.rows[1].EMA_50, h[1][2].num)
    /\ \A i \in 2..Len(h) :
          /\ t.rows[i].EMA_50.q = 1
          /\ t.rows[i - 1].EMA_50.q = 1
          /\ BigMulSmall(t.rows[i].EMA_50.big, EMA_SPAN + 1)
                = BigAdd(BigMulSmall(t.rows[i - 1].EMA_50.big, EMA_SPAN - 1),
                         BigFromInt(2 * h[i][2].num))

\* C5, as claimed: EMA seeding and recurrence for any price series, a
\* single-sample series included.  Whatever well-formed history main has
\* fetched, its evaluation is a table that satisfies the EMA law.
C5_EmaAnySeries ==
    (pc = "analyse" /\ ~data.none /\ Len(data.history) > 0
        /\ ~FrameRaises(data.history) /\ WellFormed(data.history)) =>
        LET t == calculate_technical_indicators(data.history)
        IN  ~t.none /\ EmaLaw(data.history, t)

\* C5, amended: the EMA law holds on every history of at least
\* MIN_DATA_POINTS well-formed samples; a shorter history, a single sample
\* included, has no table (None).
C5_EmaSeedAndRecurrence ==
    /\ (Calculated /\ WellFormed(data.history)) => EmaLaw(data.history, df)
    /\ (pc = "analyse" /\ Len(data.history) < MIN_DATA_POINTS) =>
           calculate_technical_indicators(data.history).none

\* A table whose last EMA is not simply the last price.
C5_Witness ==
    /\ Calculated
    /\ WellFormed(data.history)
    /\ Len(df.rows) > MIN_DATA_POINTS
    /\ ~EmaEqInt(df.rows[Len(df.rows)].EMA_50,
                 data.history[Len(data.history)][2].num)

\* C6, as claimed: a malformed sample is rejected without effect.  The
\* values of SMA_20, EMA_50 and RSI_14 computed for the other samples are
\* those computed from the history without the malformed samples.
C6_MalformedRejected ==
    (Calculated /\ ~WellFormed(data.history)) =>
        LET clean == SelectSeq(data.history, LAMBDA row : ~IsNaN(row[2]))
            want  == Indicators(clean)
        IN  /\ Len(df.rows) = Len(want)
            /\ \A j \in 1..Len(want) :
                  /\ FltEq(df.rows[j].SMA_20, want[j].SMA_20)
                  /\ EmaEq(df.rows[j].EMA_50, want[j].EMA_50)
                  /\ RsiEq(df.rows[j].RSI_14, want[j].RSI_14)

\* C7: no failure crashes the process.  No exception leaves the loop; from
\* the start of a cycle the loop always reaches the sleep, and from the
\* sleep the next cycle always starts; a calculation that raises inside
\* gives None.
C7_LoopNeverStops ==
    /\ [](pc \in {"fetch", "analyse", "render", "sleep"})
    /\ []((pc = "render" /\ FrameRaises(data.history)) => df.none)
    /\ [][MainMoves]_pc
    /\ (pc = "fetch" ~> pc = "sleep")
    /\ (pc = "sleep" ~> pc = "fetch")

\* The except clause of main has run.
C7_Witness == pc = "sleep" /\ shown.kind = "recover"

\* C8: short-series boundary.  A history shorter than an indicator's period
\* is evaluated to None: no error, and no row reports the indicator; and
\* no cell of a returned table is NaN, whatever the history.
C8_ShortSeriesNoNaN ==
    /\ (pc = "analyse" /\ Len(data.history) < SMA_WINDOW) =>
           calculate_technical_indicators(data.history) = None
    /\ Calculated => \A j \in 1..Len(df.rows) : ~RowHasNaN(df.rows[j])

\* A table returned for a history that holds a malformed sample.
C8_Witness ==
    /\ Calculated
    /\ ~WellFormed(data.history)
    /\ Len(df.rows) >= MIN_DATA_POINTS

\* The gains and losses of a history, as the code takes them.
GainOf(h) == WherePositive(Diff(Prices(h)))

LossOf(h) == Negate(WhereNegative(Diff(Prices(h))))

\* C9, as claimed: Wilder's smoothing.  From the second row on,
\* avg_t = (avg_{t-1}*(RSI_WINDOW - 1) + x_t)/RSI_WINDOW for the gains and
\* for the losses.
C9_WilderSmoothing ==
    (Calculated /\ WellFormed(data.history)) =>
        LET gain == GainOf(data.history)
            loss == LossOf(data.history)
            ag   == AvgGain(gain)
            al   == AvgLoss(loss)
            Wilder(avg, x, i) ==
                FltEq([num |-> avg[i].num * RSI_WINDOW, den |-> avg[i].den],
                      FltAdd([num |-> avg[i - 1].num * (RSI_WINDOW - 1),
                              den |-> avg[i - 1].den], x[i]))
        IN  \A i \in 2..Len(gain) : Wilder(ag, gain, i) /\ Wilder(al, loss, i)

\* C9, amended: the smoothing is a plain rolling mean.  The RSI_14 of the
\* row of sample i is computed from the sum of the last min(RSI_WINDOW, i)
\* gains and of the last min(RSI_WINDOW, i) losses, each divided by that
\* count.
C9_RollingMeanSmoothing ==
    Calculated =>
        LET gain == GainOf(data.history)
            loss == LossOf(data.history)
        IN  \A j \in 1..Len(df.rows) :
                LET i  == df.rows[j].timestamp
                    lo == Max2(1, i - RSI_WINDOW + 1)
                    c  == Min2(RSI_WINDOW, i)
                    g  == [num |-> SumRange(gain, lo, i), den |-> c]
                    l  == [num |-> SumRange(loss, lo, i), den |-> c]
                IN  RsiEq(df.rows[j].RSI_14, RsiOf(RelativeStrength(g, l)))

\* A table whose last RSI has both gains and losses in its window.
C9_Witness ==
    /\ Calculated
    /\ WellFormed(data.history)
    /\ RsiGtInt(df.rows[Len(df.rows)].RSI_14, 0)
    /\ RsiLtInt(df.rows[Len(df.rows)].RSI_14, 99)

\* C10: SMA divides by the true count.  On a history of well-formed
\* samples the SMA_20 of row i is the sum of the last min(SMA_WINDOW, i)
\* prices over that same count; and with a period of 3 the prices 10, 12,
\* 11 give 11 at the third row.
C10_SmaTrueCount ==
    /\ (Calculated /\ WellFormed(data.history)) =>
           \A j \in 1..Len(df.rows) :
               LET i  == df.rows[j].timestamp
                   c  == Min2(SMA_WINDOW, i)
               IN  FltEq(df.rows[j].SMA_20,
                         [num |-> SumRange(Prices(data.history), i - c + 1, i),
                          den |-> c])
    /\ FltEq(RollingMean(<<Flt(10), Flt(12), Flt(11)>>, 3, MIN_PERIODS)[3],
             Flt(11))

\* A table of a history that is not constant: in the warm-up and past it.
C10_Witness ==
    /\ Calculated
    /\ WellFormed(data.history)
    /\ ~Constant(data.history)
    /\ Len(df.rows) > SMA_WINDOW
    /\ df.rows[2].SMA_20.den = 2
    /\ df.rows[Len(df.rows)].SMA_20.den = SMA_WINDOW

====
